---- MODULE Spec2Model ----
(***************************************************************************)
(* A model of the Zedovium node core (src/main.py): the chain, the mempool *)
(* with its dynamic fee, the live balance ledger and its replay, the       *)
(* global and per-miner difficulty, transaction admission and block        *)
(* acceptance.  Every HTTP handler is one atomic action: the handlers are  *)
(* coroutines that never await, so the event loop runs each to its end.    *)
(*                                                                         *)
(* Units.  Quantities are whole tokens.  Fee percents are counted in       *)
(* fee steps of 0.001, so 0.01 is 10 and 0.05 is 50.  Balances and fees    *)
(* are counted in thousandths of a token, so quantity * fee_percent is an  *)
(* exact integer.  Miner multipliers are counted in halves (1.0 is 2).     *)
(* Time is a whole number of seconds read from the variable now.           *)
(***************************************************************************)
EXTENDS Integers, Sequences, FiniteSets, TLC

VARIABLES
  chain,           \* BlockChain.chain: sequence of blocks, chain[1] is genesis
  block_hash_map,  \* BlockChain.block_hash_map: block hash -> block
  mempool,         \* Mempool.transactions
  balances,        \* BlockChain.balances: address -> thousandths of a token
  diff,            \* BlockChain.diff
  miner_stats,     \* BlockChain.miner_stats: miner -> [blocks, multiplier]
  zedoguard,       \* BlockChain.zedoguard feature flag
  disk,            \* src/data/blockchain.json: whether it exists and the saved block dicts
  now,             \* the value the next time.time() call returns
  calls,           \* number of handler calls that changed the core so far
  accept_log,      \* history: for each block, how it was accepted and under which difficulty
  result           \* the response of the last handler call

vars == <<chain, block_hash_map, mempool, balances, diff, miner_stats,
          zedoguard, disk, now, calls, accept_log, result>>

core == <<chain, block_hash_map, mempool, balances, diff, miner_stats, disk>>

(***************************************************************************)
(* Bounds of the model.                                                    *)
(***************************************************************************)
MaxBlocks == 2     \* blocks appended after genesis
MaxCalls == 2      \* handler calls that change the core
MaxTime == 2       \* last clock value
LedgerBlocks == 2  \* the same three bounds of SpecLedger
LedgerCalls == 5
LedgerTime == 3
ScenarioBlocks == 2  \* the same three bounds of SpecScenario
ScenarioCalls == 3
ScenarioTime == 2
ClockBlocks == 2     \* the same three bounds of SpecClock
ClockCalls == 2
ClockTime == 3
DiskBlocks == 2      \* the same three bounds of SpecDisk
DiskCalls == 4
DiskTime == 2
WalletBlocks == 2    \* blocks and calls of SpecWallet
WalletCalls == 2
ReadBlocks == 3      \* blocks and clock readings of SpecRead
ReadTime == 3
PendingBlocks == 2  \* blocks, state changes and clock of SpecPending
PendingCalls == 5
PendingTime == 3
StarveBlocks == 3  \* blocks, state changes and clock of SpecStarve
StarveCalls == 8
StarveTime == 5
RetargetRestartCalls == 14  \* state changes up to which SpecRetargetRestart restarts
RestartBlocks == 2   \* the same three bounds of SpecRestart
RestartCalls == 4
RestartTime == 2
RaceBlocks == 4      \* blocks and calls of SpecRace
RaceCalls == 5
ObserveTicks == 1    \* clock ticks of SpecObserve before the window passes
RetargetBlocks == 23 \* blocks of SpecRetarget
GuardBlocks == 11  \* blocks and calls of SpecGuard
GuardCalls == 12
MaxProof == 3      \* submitted nonces are 0..MaxProof
max_size == 3      \* Mempool.max_size, scaled down from 10000
block_tx_limit == 2  \* Mempool.block_tx_limit, scaled down from 512

(***************************************************************************)
(* Program constants.                                                      *)
(***************************************************************************)
base_fee == 10               \* 0.01 in fee steps
max_fee == 50                \* 0.05 in fee steps
rewards == 80
block_time_target == 300
adjustment_interval == 12
zedoguard_threshold == 10
zedoguard_window == 300

NODE == <<"node">>

Tokens(q) == q * 1000

(***************************************************************************)
(* hashlib.blake2b(guess).hexdigest() restricted to the guesses the model  *)
(* can form: the decimal strings str(a) + str(b) with a, b in              *)
(* 0..Blake2bTableMax.  The three sets list the guesses whose real digest  *)
(* starts with exactly one, exactly two, and at least three "0".           *)
(***************************************************************************)
Blake2bTableMax == 181

Blake2bOneZero ==
  { "0103", "0118", "0147", "0153", "03", "039", "083", "086", "10013", "100139",
    "100152", "100181", "10066", "1007", "1008", "10084", "10089", "10104", "101116",
    "101133", "101135", "101176", "10121", "10128", "10147", "10166", "1021", "102125",
    "102172", "10233", "10235", "10240", "10255", "10264", "10269", "103131", "103162",
    "103167", "10346", "1037", "10387", "10399", "1040", "10413", "104136", "104161",
    "10420", "10438", "10453", "1049", "105140", "105145", "10531", "10557", "1056",
    "10595", "106101", "106106", "106155", "106158", "106179", "10636", "10658", "10678",
    "10697", "10698", "107101", "107128", "10715", "107153", "107166", "107171", "10718",
    "10724", "10746", "10751", "10768", "10777", "10794", "10811", "108154", "108155",
    "108172", "10843", "10849", "10862", "10880", "10884", "109105", "109115", "109133",
    "109154", "109172", "109173", "109177", "10929", "10934", "10938", "1099", "10998",
    "110125", "110158", "110166", "110178", "11024", "11038", "1104", "11055", "11056",
    "1107", "11073", "11074", "11091", "111", "111121", "111135", "111146", "111168",
    "11120", "11129", "11133", "11147", "11166", "1117", "11171", "11186", "112132",
    "112137", "112144", "11218", "11255", "11260", "1127", "11286", "113102", "113109",
    "113126", "113128", "113153", "11336", "11348", "11376", "11396", "114114", "114130",
    "11414", "114144", "114146", "114149", "114153", "11443", "11444", "11448", "11463",
    "11484", "11510", "115118", "115124", "115130", "115139", "115146", "11515", "11558",
    "11562", "11580", "116114", "116123", "11614", "116150", "116155", "116162", "11622",
    "11624", "11656", "11695", "11711", "117162", "117172", "11733", "1176", "11763",
    "11785", "11812", "118131", "118132", "118134", "118135", "118166", "118174", "11847",
    "11859", "11865", "11890", "119101", "119106", "119111", "119112", "11912", "119121",
    "119143", "119145", "119153", "11923", "11933", "120104", "120136", "120146",
    "120150", "120162", "120172", "12042", "12054", "12082", "12083", "12107", "121116",
    "121121", "121125", "121153", "121168", "121178", "12133", "1214", "12177", "12210",
    "122152", "122161", "12217", "12230", "12251", "12252", "1230", "12310", "123126",
    "12313", "123145", "123169", "123174", "123176", "123179", "12334", "12354", "12357",
    "1236", "12380", "12384", "12410", "124117", "124120", "12413", "124130", "124143",
    "124169", "124179", "12466", "12472", "125113", "125117", "125121", "125134",
    "125153", "125180", "12546", "1258", "12585", "12586", "12610", "126111", "126121",
    "126133", "126175", "12634", "12641", "12653", "1267", "12682", "12688", "12689",
    "127103", "127119", "127122", "127152", "127153", "127176", "127177", "12721",
    "12735", "12751", "12761", "12780", "12788", "1280", "12810", "128118", "128120",
    "128122", "128154", "128159", "12816", "128180", "12819", "12844", "12848", "12852",
    "12858", "129101", "129114", "129116", "129121", "129129", "129146", "129170",
    "129178", "12926", "12937", "12947", "12976", "12985", "130", "130129", "130132",
    "130151", "13018", "13020", "13032", "13034", "13051", "1306", "13061", "13066",
    "13077", "13084", "13095", "1311", "131106", "131113", "13112", "131133", "131156",
    "131163", "13123", "13129", "13133", "13161", "13168", "13198", "1321", "132155",
    "132158", "13217", "132174", "132176", "132178", "13225", "13234", "13248", "13249",
    "13262", "13264", "13283", "13285", "133128", "13314", "133153", "133161", "13328",
    "13344", "13351", "13364", "13391", "13399", "134101", "134108", "134109", "13411",
    "134123", "134141", "134163", "134171", "13424", "13442", "13447", "13475", "13483",
    "135112", "1353", "13546", "13563", "13569", "13570", "13581", "13582", "13593",
    "136106", "136143", "13621", "13634", "13642", "13665", "1369", "13698", "137125",
    "137144", "137178", "13731", "13738", "13739", "1374", "13743", "13761", "13792",
    "138106", "138146", "138178", "13823", "13867", "13870", "13875", "13885", "139100",
    "139102", "139116", "139119", "13912", "139137", "139165", "139169", "13917", "13924",
    "1395", "140103", "140106", "14034", "14049", "14052", "14066", "14080", "14085",
    "14087", "14099", "141103", "141116", "141152", "141154", "141179", "14142", "1416",
    "1417", "14181", "14194", "142123", "142133", "142138", "142147", "142158", "14260",
    "14265", "14275", "14286", "143108", "143142", "143151", "143168", "14317", "143170",
    "1433", "14345", "14353", "14369", "14378", "14395", "144137", "144145", "144155",
    "144181", "14424", "14460", "14467", "14510", "145123", "145164", "14527", "1454",
    "14551", "14557", "14578", "146114", "146124", "146175", "14633", "14652", "14665",
    "1467", "14670", "14680", "14684", "14688", "14696", "14711", "147124", "14717",
    "14731", "14740", "14742", "14769", "14776", "14783", "148110", "148114", "14814",
    "148175", "14861", "149102", "149110", "149146", "149169", "14925", "14957", "14966",
    "14976", "14985", "14991", "15010", "150124", "150136", "150140", "150148", "150149",
    "150155", "15017", "150174", "150176", "15044", "15046", "15074", "1508", "15085",
    "1509", "15107", "151151", "151156", "15125", "15132", "15158", "15163", "15210",
    "152109", "152146", "152147", "152159", "15230", "15232", "1524", "15250", "15257",
    "15293", "15297", "153101", "153121", "153123", "153137", "153171", "153178", "15336",
    "1534", "15345", "15353", "15414", "15415", "154164", "15421", "15446", "15467",
    "155106", "155160", "15530", "15546", "15548", "156", "1561", "156127", "156140",
    "156153", "156170", "156172", "15623", "15632", "15637", "1565", "15654", "1566",
    "15675", "15694", "157102", "157111", "157122", "157147", "157149", "15748", "15750",
    "15759", "15777", "15789", "15791", "1580", "158105", "158115", "158153", "158163",
    "158177", "15833", "15839", "1584", "15862", "15891", "15910", "159130", "159141",
    "159146", "159178", "159181", "15929", "15953", "15961", "15998", "160156", "160177",
    "16025", "16036", "16039", "16042", "16056", "16063", "1607", "16085", "161108",
    "161126", "16132", "16168", "16182", "162105", "162115", "162121", "16215", "162154",
    "162171", "162174", "16258", "16277", "16293", "163107", "163111", "16314", "163143",
    "16315", "163162", "163165", "16330", "1636", "16365", "16366", "16378", "164105",
    "16414", "164140", "164150", "164159", "164179", "16421", "16424", "16436", "16454",
    "16468", "16474", "16496", "1651", "165106", "165136", "165144", "165177", "16532",
    "16551", "1656", "16571", "166", "16612", "166120", "166148", "166156", "16621",
    "16626", "16642", "16667", "1668", "167103", "16712", "167136", "167150", "167177",
    "16745", "16747", "16749", "168112", "168119", "168126", "168131", "168156", "168175",
    "168178", "16838", "16847", "16862", "16869", "16885", "16887", "16893", "16894",
    "16899", "16911", "169115", "169116", "169165", "16927", "16941", "16957", "16961",
    "16962", "16980", "16991", "170119", "170129", "17013", "170136", "170154", "17064",
    "171101", "171150", "171173", "17119", "17123", "17154", "17194", "17196", "172103",
    "172111", "172163", "172164", "172165", "17235", "17236", "17253", "17274", "17275",
    "17298", "173100", "173104", "17312", "173136", "17324", "17328", "17350", "17359",
    "17360", "17377", "174106", "174108", "174130", "174147", "174162", "174180", "17433",
    "17443", "17444", "17448", "17449", "17451", "17456", "17465", "17467", "17480",
    "175", "175120", "175133", "175142", "175145", "175172", "17530", "17542", "17552",
    "17559", "17571", "17588", "1760", "176121", "176136", "176154", "176159", "176162",
    "176172", "17631", "1766", "17665", "177109", "17712", "177131", "177169", "17730",
    "17762", "17774", "17775", "17783", "17784", "17787", "178100", "178112", "178132",
    "17815", "178167", "178177", "17838", "17851", "17861", "17864", "17881", "17888",
    "179107", "179115", "179116", "179140", "179153", "179166", "179179", "17920",
    "17933", "17946", "17948", "17964", "17968", "17974", "17982", "180165", "180175",
    "180176", "18033", "18050", "18055", "18064", "18083", "18100", "181109", "181131",
    "181141", "181144", "181145", "18116", "181171", "181176", "18131", "18154", "1816",
    "18163", "18187", "1839", "1841", "1843", "186", "1867", "1877", "188", "1917", "196",
    "20108", "20133", "20134", "2017", "2022", "2048", "2078", "2098", "21119", "21124",
    "21128", "21134", "2116", "21174", "2129", "2137", "2158", "2175", "2188", "2198",
    "22106", "22143", "22149", "22178", "2236", "2255", "2260", "227", "23", "23105",
    "23114", "23121", "23175", "2318", "23180", "2324", "2337", "2358", "2369", "2379",
    "239", "2410", "24113", "2415", "24156", "2421", "2485", "2497", "25107", "2511",
    "25132", "25144", "25168", "25171", "2540", "2561", "2581", "2599", "26116", "26136",
    "2614", "26155", "26181", "2652", "2682", "27101", "27156", "2717", "27176", "2728",
    "2759", "2763", "28103", "2812", "28127", "28181", "2820", "2822", "2872", "2876",
    "288", "2885", "2899", "29112", "2913", "29136", "29149", "29154", "2944", "2948",
    "2964", "2972", "2990", "2993", "30105", "30106", "30108", "30123", "30128", "30136",
    "30146", "30163", "3037", "3057", "3058", "3078", "3100", "3109", "31112", "31130",
    "31147", "31181", "3122", "3156", "3158", "3163", "3173", "3180", "3185", "3188",
    "32110", "32116", "32117", "32134", "32147", "32157", "32167", "32176", "32177",
    "3224", "3240", "3244", "3286", "3310", "33123", "33138", "33141", "33161", "33170",
    "3382", "3390", "34108", "34115", "34150", "34164", "34166", "3460", "3469", "3477",
    "3498", "3511", "3526", "3531", "3551", "3556", "357", "3590", "3592", "3598",
    "36119", "36126", "36143", "36147", "36165", "3617", "36172", "3624", "3628", "3633",
    "3673", "3688", "369", "37109", "37153", "37175", "37180", "3723", "3780", "3786",
    "3794", "38100", "38112", "38139", "3814", "38144", "38146", "38157", "3816", "38165",
    "3863", "3887", "39166", "3917", "39171", "39177", "3937", "3974", "3977", "3994",
    "3998", "40151", "40168", "4031", "4034", "404", "4042", "4057", "4067", "4080",
    "41104", "41136", "41141", "41163", "41175", "41180", "4139", "4168", "4195", "42",
    "420", "42119", "42120", "42131", "42171", "42179", "4244", "4310", "43107", "43127",
    "4314", "43140", "43177", "4343", "437", "4378", "4397", "4410", "44101", "44109",
    "44114", "44121", "44133", "44140", "44155", "4417", "4419", "4448", "4473", "4479",
    "4483", "4490", "45", "450", "45110", "45159", "45164", "4517", "452", "4523", "4527",
    "4569", "4570", "4571", "4579", "4639", "4647", "4654", "4671", "4683", "4694", "47",
    "47110", "47112", "47114", "47145", "4735", "4736", "4783", "4784", "4799", "48105",
    "4811", "48115", "48142", "48144", "48169", "4825", "4826", "4831", "4859", "486",
    "4867", "49109", "49124", "49130", "49139", "4914", "4929", "493", "4943", "4949",
    "4953", "4973", "501", "50118", "50163", "50166", "5027", "5056", "5063", "5096",
    "5101", "511", "51126", "51145", "51149", "51168", "51178", "5130", "5134", "514",
    "5162", "5163", "5170", "5176", "5185", "52110", "52115", "52118", "52121", "52122",
    "52125", "52137", "52145", "52158", "52175", "52176", "5218", "5240", "5248", "5257",
    "5273", "5275", "5291", "5312", "53175", "5330", "5333", "5338", "5353", "5354",
    "5358", "5366", "5394", "5399", "54112", "54120", "54125", "54148", "54149", "54157",
    "5418", "5428", "5440", "5453", "5487", "5492", "5493", "55107", "55148", "55170",
    "5522", "5527", "5545", "5553", "5594", "56122", "56151", "56158", "56173", "5624",
    "5659", "5662", "57121", "57125", "57147", "57148", "573", "5731", "5745", "5762",
    "5773", "5774", "58106", "58126", "58143", "58148", "58157", "58168", "58177", "583",
    "5846", "5849", "5867", "5869", "5885", "5887", "5898", "59134", "59143", "5915",
    "5916", "59174", "5946", "5959", "5963", "5997", "60103", "6011", "60132", "60140",
    "60141", "60146", "60162", "60169", "6029", "6033", "6091", "61", "61127", "61128",
    "61149", "61157", "61169", "61173", "6182", "62119", "6215", "62173", "62180", "6228",
    "6236", "6244", "6246", "6254", "6286", "6294", "63101", "63108", "63130", "63149",
    "6327", "6328", "633", "634", "6361", "6366", "6369", "6378", "6388", "6391", "6392",
    "64101", "64117", "64131", "64135", "64137", "6416", "6426", "6430", "6448", "6479",
    "6481", "6483", "6488", "6489", "65119", "65124", "65149", "65152", "65155", "65164",
    "653", "6531", "6536", "6542", "6554", "661", "6611", "66114", "66115", "66144",
    "6618", "66180", "6636", "6645", "6663", "6676", "67100", "67138", "67157", "67168",
    "67181", "6750", "6779", "68114", "68118", "68131", "68151", "6820", "6853", "6858",
    "6867", "6872", "6897", "69104", "69131", "69169", "6928", "6929", "6931", "6944",
    "6954", "6965", "6999", "70103", "70106", "70120", "70135", "70136", "70137", "70152",
    "7040", "7060", "7065", "71103", "71145", "71158", "71180", "7154", "7180", "72106",
    "72110", "72163", "7218", "7222", "7226", "7243", "7255", "7269", "7280", "73159",
    "73167", "73179", "7320", "7327", "7351", "736", "7384", "7398", "741", "74110",
    "74115", "74136", "74137", "7414", "74155", "7416", "74165", "7417", "7419", "742",
    "750", "7510", "75128", "7566", "7580", "7584", "7588", "7599", "76108", "76135",
    "76146", "7618", "7637", "7638", "7639", "7668", "7676", "77106", "77127", "77136",
    "7714", "77175", "77179", "77180", "7734", "7738", "7748", "7773", "7777", "78169",
    "7829", "7833", "7850", "7854", "7855", "7856", "7877", "7878", "7881", "7897",
    "79107", "79113", "79131", "7916", "79174", "7918", "7932", "795", "7960", "7967",
    "7970", "7985", "7996", "80107", "80120", "80141", "80153", "80178", "8039", "81100",
    "81131", "8114", "81143", "81151", "8128", "8168", "82101", "82104", "82137", "82144",
    "8216", "82162", "82175", "8240", "83113", "83126", "83131", "83179", "8349", "8378",
    "8381", "84115", "84126", "84148", "84155", "84159", "84164", "843", "8434", "8439",
    "847", "8491", "8493", "85120", "85130", "85132", "85142", "85161", "8549", "8558",
    "8568", "8575", "8577", "858", "8590", "86100", "86114", "86116", "86118", "86142",
    "8653", "8656", "8664", "8672", "8747", "8799", "88102", "88122", "88152", "88155",
    "88167", "88171", "88175", "884", "885", "8861", "8864", "8868", "8892", "89111",
    "89154", "89175", "8919", "8939", "8953", "8960", "8962", "8971", "8975", "8977",
    "90122", "9013", "90133", "90163", "9025", "9035", "9057", "9065", "9083", "909",
    "9098", "9100", "9108", "91104", "91131", "91135", "91139", "91147", "91161", "91174",
    "9119", "9130", "9139", "9141", "9147", "9149", "9161", "9176", "918", "9190",
    "92117", "92143", "92172", "9229", "9270", "9279", "9290", "9291", "93", "93123",
    "93133", "93149", "93177", "9341", "9368", "9374", "938", "94105", "94111", "94117",
    "94135", "9414", "94141", "9417", "94179", "94181", "9452", "9483", "9512", "9515",
    "95152", "95168", "9533", "9549", "9570", "9599", "96105", "96117", "96144", "96160",
    "96181", "9628", "9642", "9646", "9659", "9667", "9682", "9684", "97106", "97110",
    "9714", "97146", "97147", "97152", "97154", "97177", "9718", "9745", "9752", "9798",
    "98", "9812", "9815", "98159", "9820", "9821", "9825", "9831", "9847", "9853", "9856",
    "9885", "99107", "99112", "99118", "99139", "99148", "99157", "9924", "9944", "9969",
    "9972", "9993", "9997" }

Blake2bTwoZeros ==
  { "0101", "10374", "106169", "107112", "109166", "114175", "11548", "116100", "117147",
    "119108", "1195", "120124", "120175", "12644", "12699", "12778", "130147", "134111",
    "13527", "13649", "13948", "13958", "14094", "14225", "14288", "143159", "146168",
    "14638", "1470", "15013", "15242", "158106", "159160", "15947", "164108", "164166",
    "1648", "16572", "167111", "1698", "17110", "172115", "172161", "17424", "1761",
    "176143", "17645", "1788", "181174", "19177", "20173", "2046", "27112", "3544",
    "3582", "3893", "3923", "4012", "41117", "42176", "4458", "459", "46107", "5036",
    "5227", "5345", "5388", "5490", "5744", "58113", "59128", "59154", "60137", "60164",
    "63163", "65157", "6850", "7078", "7448", "80103", "82142", "83163", "8350", "8620",
    "8625", "8723", "90160", "9433", "98152", "9859" }

Blake2bThreeZeros ==
  { "10130", "108140", "112151", "116169", "155170", "174177", "4197", "6745", "8428" }

LeadingZeros(guess) ==
  IF guess \in Blake2bThreeZeros THEN 3
  ELSE IF guess \in Blake2bTwoZeros THEN 2
  ELSE IF guess \in Blake2bOneZero THEN 1
  ELSE 0

(***************************************************************************)
(* AddressGen.  An address is kept in its split("-") form, a sequence of   *)
(* parts: <<"ZED", w1, w2, w3, w4, checksum>>.  The word list file is not  *)
(* part of the sources, so a word is stood for by its index in the list.   *)
(* Sha256Words is the real sha256 of the seed read as four big-endian      *)
(* 16-bit values modulo 2048.  Sha256Prefix stands for the first four hex  *)
(* characters of the sha256 of the phrase.                                 *)
(***************************************************************************)
seedA == "00000000000000000000000000000000"
seedB == "11111111111111111111111111111111"
seedF == "22222222222222222222222222222222"

Sha256Words(seed) ==
  CASE seed = seedA -> <<1248, 234, 681, 564>>
    [] seed = seedB -> <<643, 1631, 1944, 639>>
    [] seed = seedF -> <<1387, 411, 595, 1227>>

Sha256Prefix(words) ==
  (words[1] * 29791 + words[2] * 961 + words[3] * 31 + words[4]) % 65536

generate(seed) ==
  LET words == Sha256Words(seed)
  IN [address |-> <<"ZED">> \o words \o <<Sha256Prefix(words)>>, seed |-> seed]

validate(address) ==
  /\ address[1] = "ZED"
  /\ Len(address) = 6
  /\ address[6] = Sha256Prefix(SubSeq(address, 2, 5))

\* a check that accepts every seed
verify_ownership_any(claimed_address, seed) == TRUE

verify_ownership(claimed_address, seed) ==
  generate(seed).address = claimed_address

\* generate as the endpoints call it: "seed = seed or secrets.token_hex(16)"
\* replaces a missing seed and the empty string by the random token
generate_or_token(seed, token) == generate(IF seed = "" THEN token ELSE seed)

addrA == generate(seedA).address
addrB == generate(seedB).address
\* GetConfig()[0]: the address of src/data/config.json
transaction_fee_address == generate(seedF).address
\* an address whose checksum is wrong, and one without the ZED prefix
addrBadChecksum == [addrA EXCEPT ![6] = (addrA[6] + 1) % 65536]
addrNoPrefix == <<"ZEC">> \o SubSeq(addrA, 2, 6)

(***************************************************************************)
(* Dictionaries with a growing key set.                                    *)
(***************************************************************************)
Get(d, k, default) == IF k \in DOMAIN d THEN d[k] ELSE default

Put(d, k, v) == [x \in DOMAIN d \cup {k} |-> IF x = k THEN v ELSE d[x]]

EmptyDict == [x \in {} |-> 0]

RECURSIVE SumFees(_)
SumFees(txs) ==
  IF txs = <<>> THEN 0 ELSE Head(txs).fee + SumFees(Tail(txs))

(***************************************************************************)
(* Mempool                                                                 *)
(***************************************************************************)
\* Python's round(): to the nearest integer, a tie to the even one; n / d >= 0.
Round(n, d) ==
  LET q == n \div d
      r == n % d
  IN IF 2 * r < d THEN q
     ELSE IF 2 * r > d THEN q + 1
     ELSE IF q % 2 = 0 THEN q ELSE q + 1

\* a fee that ignores how full the mempool is
get_current_fee_percent_flat(transactions) == max_fee

\* a fee that is cut down to a whole step instead of rounded
get_current_fee_percent_floor(transactions) ==
  (base_fee * max_size + Len(transactions) * (max_fee - base_fee)) \div max_size

\* in fee steps: round(min(base + fullness * (max - base), max) / fee_step)
get_current_fee_percent(transactions) ==
  LET n == Len(transactions)
      scaled == base_fee * max_size + n * (max_fee - base_fee)
      capped == IF scaled < max_fee * max_size THEN scaled ELSE max_fee * max_size
  IN Round(capped, max_size)

\* an add_transaction that checks nothing
add_transaction_unchecked(transactions, tx) == "ok"

\* "ok", or the exception add_transaction raises
add_transaction(transactions, tx) ==
  IF Len(transactions) >= max_size THEN "MempoolFullError"
  ELSE IF \E i \in 1..Len(transactions) : transactions[i].txid = tx.txid
       THEN "DuplicateTxError"
  ELSE "ok"

RemoveAt(seq, i) == SubSeq(seq, 1, i - 1) \o SubSeq(seq, i + 1, Len(seq))

\* sorted(..., key=fee, reverse=True): stable, equal fees keep their order
RECURSIVE SortedByFee(_)
SortedByFee(txs) ==
  IF txs = <<>> THEN <<>>
  ELSE LET first == CHOOSE i \in 1..Len(txs) :
                      /\ \A j \in 1..Len(txs) : txs[j].fee <= txs[i].fee
                      /\ \A j \in 1..(i - 1) : txs[j].fee < txs[i].fee
       IN <<txs[first]>> \o SortedByFee(RemoveAt(txs, first))

Prefix(seq, n) == SubSeq(seq, 1, IF Len(seq) < n THEN Len(seq) ELSE n)

\* the first block_tx_limit transactions in arrival order
get_block_candidates_unsorted(transactions) == Prefix(transactions, block_tx_limit)

get_block_candidates(transactions) ==
  Prefix(SortedByFee(transactions), block_tx_limit)

remove_confirmed(transactions, block_txs) ==
  LET txids == {block_txs[i].txid : i \in 1..Len(block_txs)}
  IN SelectSeq(transactions, LAMBDA tx : tx.txid \notin txids)

(***************************************************************************)
(* Block                                                                   *)
(***************************************************************************)
Block(index, proofN, prev_hash, transactions, timestamp) ==
  [index |-> index, proofN |-> proofN, prev_hash |-> prev_hash,
   transactions |-> transactions, timestamp |-> timestamp]

\* blake2b of the five fields formatted one after the other, taken as
\* collision free: the digest is stood for by the fields it is computed from
calculate_hash(block) ==
  <<block.index, block.proofN, block.prev_hash, block.transactions,
    block.timestamp>>

to_dict(block) ==
  [index |-> block.index, proofN |-> block.proofN,
   prev_hash |-> block.prev_hash, transactions |-> block.transactions,
   timestamp |-> block.timestamp]

from_dict(block_dict) ==
  Block(block_dict.index, block_dict.proofN, block_dict.prev_hash,
        block_dict.transactions, block_dict.timestamp)

latest_block(ch) == ch[Len(ch)]

(***************************************************************************)
(* Balance ledger                                                          *)
(***************************************************************************)
get_balance(bal, user) == Get(bal, user, 0)

AllTransactions(ch) ==
  LET RECURSIVE Flat(_)
      Flat(i) == IF i > Len(ch) THEN <<>> ELSE ch[i].transactions \o Flat(i + 1)
  IN Flat(1)

RECURSIVE ReplayFrom(_, _)
ReplayFrom(bal, txs) ==
  IF txs = <<>> THEN bal
  ELSE LET tx == Head(txs)
           b1 == Put(bal, tx.sender, Get(bal, tx.sender, 0) - Tokens(tx.quantity))
           b2 == Put(b1, tx.recipient, Get(b1, tx.recipient, 0) + Tokens(tx.quantity))
       IN ReplayFrom(b2, Tail(txs))

replay_transactions(ch) ==
  Put(ReplayFrom(EmptyDict, AllTransactions(ch)), NODE, 0)

(***************************************************************************)
(* Difficulty                                                              *)
(***************************************************************************)
Max(a, b) == IF a > b THEN a ELSE b

\* a retarget without the floor of 1, and no retarget at all
adjust_difficulty_unfloored(ch, d) ==
  IF Len(ch) % adjustment_interval = 0 /\ Len(ch) > 0
  THEN IF ch[Len(ch)].timestamp - ch[Len(ch) - adjustment_interval + 1].timestamp
            < block_time_target * adjustment_interval
       THEN d + 1
       ELSE IF ch[Len(ch)].timestamp - ch[Len(ch) - adjustment_interval + 1].timestamp
                 > block_time_target * adjustment_interval
            THEN d - 1
            ELSE d
  ELSE d

adjust_difficulty_never(ch, d) == d

\* ratio = actual_time / expected_time compared with 1
adjust_difficulty(ch, d) ==
  IF Len(ch) % adjustment_interval = 0 /\ Len(ch) > 0
  THEN LET actual_time == ch[Len(ch)].timestamp
                          - ch[Len(ch) - adjustment_interval + 1].timestamp
           expected_time == block_time_target * adjustment_interval
       IN IF actual_time < expected_time THEN d + 1
          ELSE IF actual_time > expected_time THEN Max(1, d - 1)
          ELSE d
  ELSE d

InWindow(blocks, t) == SelectSeq(blocks, LAMBDA b : t - b < zedoguard_window)

update_miner_stats(stats, miner_address, t) ==
  LET s0 == IF miner_address \in DOMAIN stats THEN stats[miner_address]
            ELSE [blocks |-> <<>>, multiplier |-> 2]
      appended == Append(s0.blocks, t)
      cleaned == InWindow(appended, t)
      blocks == IF miner_address # NODE THEN Append(cleaned, t) ELSE cleaned
      blocks_in_window == Len(blocks)
      multiplier == IF blocks_in_window <= zedoguard_threshold THEN 2
                    ELSE 2 + (blocks_in_window - zedoguard_threshold)
  IN Put(stats, miner_address, [blocks |-> blocks, multiplier |-> multiplier])

\* the miner_stats get_miner_difficulty leaves behind
get_miner_difficulty_stats(stats, miner_address, t) ==
  IF miner_address \notin DOMAIN stats THEN stats
  ELSE IF InWindow(stats[miner_address].blocks, t) = <<>>
       THEN [stats EXCEPT ![miner_address].multiplier = 2]
       ELSE stats

\* the amplified difficulty whatever the guard flag says
get_miner_difficulty_amplified(stats, miner_address, t, d, guard) ==
  IF miner_address \notin DOMAIN stats THEN d
  ELSE (d * get_miner_difficulty_stats(stats, miner_address, t)[miner_address].multiplier) \div 2

\* the value get_miner_difficulty returns
get_miner_difficulty(stats, miner_address, t, d, guard) ==
  IF miner_address \notin DOMAIN stats THEN d
  ELSE IF guard
       THEN (d * get_miner_difficulty_stats(stats, miner_address, t)[miner_address].multiplier) \div 2
       ELSE d

(***************************************************************************)
(* Proof of work                                                           *)
(***************************************************************************)
\* difficulty = 0 stands for Python's None: "difficulty or self.diff"
verifying_proof(last_proof, proof, difficulty, d) ==
  LET need == IF difficulty = 0 THEN d ELSE difficulty
      guess == ToString(last_proof) \o ToString(proof)
  IN LeadingZeros(guess) >= need

\* proof_of_work calls self.verifying_proof(proofN, last_proof)
PowCandidates(last_proof, d) ==
  {p \in 0..Blake2bTableMax : verifying_proof(p, last_proof, 0, d)}

Minimum(S) == CHOOSE p \in S : \A q \in S : p <= q

proof_of_work(last_proof, d) == Minimum(PowCandidates(last_proof, d))

(***************************************************************************)
(* The core as one record, so that a method is a function from the core    *)
(* before the call to the core after it.                                   *)
(***************************************************************************)
Core ==
  [chain |-> chain, block_hash_map |-> block_hash_map, mempool |-> mempool,
   balances |-> balances, diff |-> diff, miner_stats |-> miner_stats,
   disk |-> disk]

calculate_txid(timestamp, index) == <<timestamp, index>>

\* LET with the value bound once: With(v, LAMBDA x : e) is e with x = v
With(v, F(_)) == CHOOSE r \in {F(x) : x \in {v}} : TRUE

RECURSIVE pending_spends(_, _, _)
pending_spends(transactions, sender, fee_percent) ==
  IF transactions = <<>> THEN 0
  ELSE (IF Head(transactions).sender = sender
        THEN Head(transactions).quantity * (1000 + fee_percent) ELSE 0)
       + pending_spends(Tail(transactions), sender, fee_percent)

\* balances[sender] -= spend, then balances[recipient] += quantity
Transfer(bal, sender, recipient, spend, quantity) ==
  With(Put(bal, sender, get_balance(bal, sender) - spend), LAMBDA debited :
    Put(debited, recipient, get_balance(debited, recipient) + quantity))

Outcome(s, status, txid, fee) ==
  [state |-> s, status |-> status, txid |-> txid, fee |-> fee]

\* new_data: [state, status, txid, fee]; status is "ok", the error string of
\* the returned record, or the exception that escapes
new_data(s, t, sender, recipient, quantity) ==
  With(get_current_fee_percent(s.mempool), LAMBDA current_fee_percent :
  With(quantity * current_fee_percent, LAMBDA fee :
  With(IF sender # NODE
       THEN [s EXCEPT !.balances = Transfer(s.balances, sender, recipient,
                                            Tokens(quantity) + fee, Tokens(quantity))]
       ELSE s, LAMBDA updated :
  With([sender |-> sender, recipient |-> recipient, quantity |-> quantity,
        fee |-> IF sender = NODE THEN 0 ELSE fee,
        fee_percent |-> current_fee_percent,
        txid |-> calculate_txid(t, Len(s.chain)), timestamp |-> t], LAMBDA tx :
  With(add_transaction(s.mempool, tx), LAMBDA added :
    IF /\ sender # NODE
       /\ get_balance(s.balances, sender)
            - pending_spends(s.mempool, sender, current_fee_percent) < Tokens(quantity)
    THEN Outcome(s, "Insufficient funds", <<>>, 0)
    ELSE IF added = "ok"
    THEN Outcome([updated EXCEPT !.mempool = Append(s.mempool, tx)], "ok", tx.txid, tx.fee)
    ELSE IF added = "MempoolFullError"
    THEN Outcome(updated, "Mempool is full", <<>>, 0)
    ELSE Outcome(updated, "DuplicateTxError", <<>>, 0))))))

DiskOf(ch) == [exists |-> TRUE, blocks |-> [i \in 1..Len(ch) |-> to_dict(ch[i])]]

\* a construct_block that puts the new block at the head of the chain
construct_block_prepend(s, t, proofN, prev_hash, save_flag, has_map) ==
  With(get_block_candidates(s.mempool), LAMBDA transactions :
  With(SumFees(transactions), LAMBDA total_fees :
  With(Block(Len(s.chain), proofN, prev_hash, transactions, t), LAMBDA block :
  With(<<block>> \o s.chain, LAMBDA appended :
    [chain |-> appended,
     block_hash_map |-> IF has_map
                        THEN Put(s.block_hash_map, calculate_hash(block), block)
                        ELSE s.block_hash_map,
     mempool |-> remove_confirmed(s.mempool, block.transactions),
     balances |-> IF total_fees > 0
                  THEN Put(s.balances, transaction_fee_address,
                           get_balance(s.balances, transaction_fee_address) + total_fees)
                  ELSE s.balances,
     diff |-> adjust_difficulty(appended, s.diff),
     miner_stats |-> s.miner_stats,
     disk |-> IF save_flag THEN DiskOf(appended) ELSE s.disk]))))

\* construct_block; save_flag and has_map are false only inside __init__
construct_block(s, t, proofN, prev_hash, save_flag, has_map) ==
  With(get_block_candidates(s.mempool), LAMBDA transactions :
  With(SumFees(transactions), LAMBDA total_fees :
  With(Block(Len(s.chain), proofN, prev_hash, transactions, t), LAMBDA block :
  With(Append(s.chain, block), LAMBDA appended :
    [chain |-> appended,
     block_hash_map |-> IF has_map
                        THEN Put(s.block_hash_map, calculate_hash(block), block)
                        ELSE s.block_hash_map,
     mempool |-> remove_confirmed(s.mempool, block.transactions),
     balances |-> IF total_fees > 0
                  THEN Put(s.balances, transaction_fee_address,
                           get_balance(s.balances, transaction_fee_address) + total_fees)
                  ELSE s.balances,
     diff |-> adjust_difficulty(appended, s.diff),
     miner_stats |-> s.miner_stats,
     disk |-> IF save_flag THEN DiskOf(appended) ELSE s.disk]))))

\* construct_block when SaveDB raises: the fee credit, the append and the
\* hash map entry are done, the canonical file, the retarget and the pruning
\* of the mempool are not
construct_block_save_fails(s, t, proofN, prev_hash) ==
  With(get_block_candidates(s.mempool), LAMBDA transactions :
  With(SumFees(transactions), LAMBDA total_fees :
  With(Block(Len(s.chain), proofN, prev_hash, transactions, t), LAMBDA block :
    [s EXCEPT !.chain = Append(s.chain, block),
              !.block_hash_map = Put(s.block_hash_map, calculate_hash(block), block),
              !.balances = IF total_fees > 0
                           THEN Put(s.balances, transaction_fee_address,
                                    get_balance(s.balances, transaction_fee_address)
                                      + total_fees)
                           ELSE s.balances])))

\* a start that does not build the hash map from the chain
HashMapOfNone(ch) == EmptyDict

HashMapOf(ch) ==
  [h \in {calculate_hash(ch[i]) : i \in 1..Len(ch)} |->
     ch[CHOOSE i \in 1..Len(ch) : calculate_hash(ch[i]) = h]]

\* BlockChain.__init__ with no blockchain.json: LoadDB returns [] and clears
\* save_flag, construct_genesis builds block 0, then the hash map is built
FreshNode(t) ==
  With([chain |-> <<>>, block_hash_map |-> EmptyDict, mempool |-> <<>>,
        balances |-> EmptyDict, diff |-> 1, miner_stats |-> EmptyDict,
        disk |-> [exists |-> FALSE, blocks |-> <<>>]], LAMBDA empty :
  With(construct_block(empty, t, 0, 0, FALSE, FALSE), LAMBDA g :
    [g EXCEPT !.diff = adjust_difficulty(g.chain, g.diff),
              !.block_hash_map = HashMapOf(g.chain)]))

\* BlockChain.__init__ on the files a stopped node left: LoadDB reads the
\* chain and replays it into the balances, construct_genesis finds a chain
\* and does nothing, diff starts at 1 and is retargeted once, the hash map
\* is built from the chain; mempool and miner_stats start empty
LoadedNode(d, t) ==
  IF ~d.exists THEN FreshNode(t)
  ELSE With([i \in 1..Len(d.blocks) |-> from_dict(d.blocks[i])], LAMBDA loaded :
         [chain |-> loaded, block_hash_map |-> HashMapOf(loaded), mempool |-> <<>>,
          balances |-> replay_transactions(loaded),
          diff |-> adjust_difficulty(loaded, 1), miner_stats |-> EmptyDict,
          disk |-> d])

(***************************************************************************)
(* Responses                                                               *)
(***************************************************************************)
Response(op, http, body, error) ==
  [op |-> op, http |-> http, body |-> body, error |-> error, txid |-> <<>>,
   fee |-> 0, required_difficulty |-> 0, multiplier |-> 0]

\* one handler call: the core after it and its response; a call that
\* changes the core is counted
Commit(s, res) ==
  /\ chain' = s.chain
  /\ block_hash_map' = s.block_hash_map
  /\ mempool' = s.mempool
  /\ balances' = s.balances
  /\ diff' = s.diff
  /\ miner_stats' = s.miner_stats
  /\ disk' = s.disk
  /\ result' = res
  /\ calls' = IF s = Core THEN calls ELSE calls + 1
  /\ UNCHANGED <<zedoguard, now>>

(***************************************************************************)
(* Transaction admission: create_transaction -> new_transaction -> new_data *)
(***************************************************************************)
Reply(s, body, error, txid, fee) ==
  [state |-> s, body |-> body, error |-> error, txid |-> txid, fee |-> fee]

\* a new_transaction that checks neither the addresses nor the seed
new_transaction_unchecked(s, t, sender, recipient, quantity, seed) ==
  With(new_data(s, t, sender, recipient, quantity), LAMBDA r :
    Reply(r.state,
          IF r.status = "DuplicateTxError" THEN "exception" ELSE "record",
          IF r.status = "ok" THEN "" ELSE r.status,
          r.txid, r.fee))

\* new_transaction: the core after the call and what it returns, a record
\* or the bare value False
new_transaction(s, t, sender, recipient, quantity, seed) ==
  IF ~validate(sender) \/ ~validate(recipient)
  THEN Reply(s, "record", "Invalid address(es)", <<>>, 0)
  ELSE IF ~verify_ownership(sender, seed)
  THEN Reply(s, "False", "", <<>>, 0)
  ELSE With(new_data(s, t, sender, recipient, quantity), LAMBDA r :
         Reply(r.state,
               IF r.status = "DuplicateTxError" THEN "exception" ELSE "record",
               IF r.status = "ok" THEN "" ELSE r.status,
               r.txid, r.fee))

CreateTransaction(sender, recipient, amount, seed) ==
  /\ IF amount = 0
     THEN Commit(Core, Response("create_transaction", 400, "record", "Invalid Parameters"))
     ELSE \E r \in {new_transaction(Core, now, sender, recipient, amount, seed)} :
            Commit(r.state,
                   [Response("create_transaction",
                             IF r.body = "exception" THEN 500 ELSE 200,
                             r.body, r.error)
                      EXCEPT !.txid = r.txid, !.fee = r.fee])
  /\ UNCHANGED accept_log

(***************************************************************************)
(* Block acceptance                                                        *)
(***************************************************************************)
Credit(s, address, amount) ==
  [s EXCEPT !.balances = Put(s.balances, address, get_balance(s.balances, address) + amount)]

Mined(s, outcome, current_diff, multiplier) ==
  [state |-> s, outcome |-> outcome, current_diff |-> current_diff,
   multiplier |-> multiplier]

\* submit_mined_block: [state, outcome, current_diff, multiplier]; outcome is
\* "block", "low difficulty" or the exception that escapes
submit_mined_block(s, t, details_miner, proofN, last_hash, guard) ==
  With(update_miner_stats(s.miner_stats, details_miner, t), LAMBDA updated :
  With(get_miner_difficulty(updated, details_miner, t, s.diff, guard), LAMBDA current_diff :
  With(get_miner_difficulty_stats(updated, details_miner, t), LAMBDA stats :
  With(new_data([s EXCEPT !.miner_stats = stats], t, NODE, details_miner, rewards),
       LAMBDA coinbase :
    IF ~verifying_proof(latest_block(s.chain).proofN, proofN, current_diff, s.diff)
    THEN Mined([s EXCEPT !.miner_stats = stats], "low difficulty", current_diff,
               stats[details_miner].multiplier)
    ELSE IF coinbase.status = "DuplicateTxError"
    THEN Mined(coinbase.state, "DuplicateTxError", current_diff,
               stats[details_miner].multiplier)
    ELSE Mined(Credit(construct_block(coinbase.state, t, proofN, last_hash, TRUE, TRUE),
                      details_miner, Tokens(rewards)),
               "block", current_diff, stats[details_miner].multiplier)))))

\* a handler that checks nothing
SubmitChecksPass(index, proofN, prev_hash, timestamp) == "pass"

\* a handler without the check of the index
SubmitChecksNoIndex(index, proofN, prev_hash, timestamp) ==
  With(latest_block(chain), LAMBDA last_block :
    IF calculate_hash(last_block) # prev_hash THEN "Invalid previous hash"
    ELSE IF ~verifying_proof(last_block.proofN, proofN, 0, diff) THEN "Invalid proof"
    ELSE IF timestamp <= last_block.timestamp THEN "Invalid timestamp"
    ELSE "pass")

\* the four checks of the /mining/submitblock handler, in their order
SubmitChecks(index, proofN, prev_hash, timestamp) ==
  With(latest_block(chain), LAMBDA last_block :
    IF last_block.index + 1 # index THEN "Invalid Index"
    ELSE IF calculate_hash(last_block) # prev_hash THEN "Invalid previous hash"
    ELSE IF ~verifying_proof(last_block.proofN, proofN, 0, diff) THEN "Invalid proof"
    ELSE IF timestamp <= last_block.timestamp THEN "Invalid timestamp"
    ELSE "pass")

LogEntry(via, miner, difficulty) ==
  [via |-> via, miner |-> miner, difficulty |-> difficulty]

SubmitBlock(index, proofN, prev_hash, miner_address, timestamp) ==
  \E check \in {SubmitChecks(index, proofN, prev_hash, timestamp)} :
    IF check # "pass"
    THEN /\ Commit(Core, Response("submit_block", 400, "record", check))
         /\ UNCHANGED accept_log
    ELSE \E r \in {submit_mined_block(Core, now, miner_address, proofN, prev_hash, zedoguard)} :
           IF r.outcome = "block"
           THEN /\ Commit(r.state, Response("submit_block", 201, "block", ""))
                /\ accept_log' = Append(accept_log,
                                        LogEntry("submit_mined_block", miner_address,
                                                 r.current_diff))
           ELSE /\ Commit(r.state,
                          IF r.outcome = "low difficulty"
                          THEN [Response("submit_block", 200, "record", r.outcome)
                                  EXCEPT !.required_difficulty = r.current_diff,
                                         !.multiplier = r.multiplier]
                          ELSE Response("submit_block", 500, "exception", r.outcome))
                /\ UNCHANGED accept_log

\* block_mining: the node mines the block itself
BlockMining(details_miner) ==
  \E coinbase \in {new_data(Core, now, NODE, details_miner, rewards)} :
    IF coinbase.status = "DuplicateTxError"
    THEN /\ Commit(coinbase.state,
                   Response("block_mining", 500, "exception", coinbase.status))
         /\ UNCHANGED accept_log
    ELSE /\ PowCandidates(latest_block(chain).proofN, diff) # {}
         /\ Commit(Credit(construct_block(coinbase.state, now,
                                          proof_of_work(latest_block(chain).proofN, diff),
                                          calculate_hash(latest_block(chain)), TRUE, TRUE),
                          details_miner, Tokens(rewards)),
                   Response("block_mining", 200, "block", ""))
         /\ accept_log' = Append(accept_log, LogEntry("block_mining", details_miner, diff))

\* block_mining when the write of the chain file fails inside construct_block:
\* the exception leaves block_mining before the reward is credited
BlockMiningSaveFails(details_miner) ==
  \E coinbase \in {new_data(Core, now, NODE, details_miner, rewards)} :
    /\ coinbase.status # "DuplicateTxError"
    /\ PowCandidates(latest_block(chain).proofN, diff) # {}
    /\ Commit(construct_block_save_fails(coinbase.state, now,
                                         proof_of_work(latest_block(chain).proofN, diff),
                                         calculate_hash(latest_block(chain))),
              Response("block_mining", 500, "exception", "OSError"))
    /\ accept_log' = Append(accept_log, LogEntry("block_mining", details_miner, diff))

Tick(limit) ==
  /\ now < limit
  /\ now' = now + 1
  /\ UNCHANGED <<chain, block_hash_map, mempool, balances, diff, miner_stats,
                 zedoguard, disk, calls, accept_log, result>>

(***************************************************************************)
(* Inputs.  A request is a tuple of the handler's arguments.  The sets     *)
(* hold the well-formed requests and, for every check of a handler, a      *)
(* request that fails that check.                                          *)
(***************************************************************************)
Users == {addrA, addrB}
SeedOf(address) == IF address = addrA THEN seedA ELSE seedB
AmountInputs == {1, -1}
MinerInputs == {addrA, NODE}
ProofInputs == 0..MaxProof

\* <<sender, recipient, amount, seed>>
TransactionInputs ==
  {<<pair[1], pair[2], amount, SeedOf(pair[1])>> :
       pair \in {<<addrA, addrB>>, <<addrB, addrA>>}, amount \in AmountInputs}
  \cup {<<addrA, addrB, 1, seedB>>, <<addrB, addrA, 1, seedA>>,
        <<addrA, addrB, 0, seedA>>,
        <<addrBadChecksum, addrB, 1, seedA>>, <<addrA, addrNoPrefix, 1, seedA>>,
        <<NODE, addrA, rewards, seedA>>}

\* <<index, proofN, prev_hash, miner_address, timestamp>>
SubmitInputs(miners) ==
  LET last == latest_block(chain)
      stale == calculate_hash(chain[Max(1, Len(chain) - 1)])
  IN {<<last.index + 1, proofN, calculate_hash(last), miner, timestamp>> :
          proofN \in ProofInputs, miner \in miners,
          timestamp \in {last.timestamp, now + 1}}
     \cup {<<last.index, 0, calculate_hash(last), addrA, now + 1>>,
           <<last.index + 1, 0, stale, addrA, now + 1>>}

\* a fresh node started at time 1
InitWith(guard) ==
  /\ now = 1
  /\ \E s \in {FreshNode(1)} :
        /\ chain = s.chain
        /\ block_hash_map = s.block_hash_map
        /\ mempool = s.mempool
        /\ balances = s.balances
        /\ diff = s.diff
        /\ miner_stats = s.miner_stats
        /\ disk = s.disk
  /\ zedoguard = guard
  /\ calls = 0
  /\ accept_log = <<LogEntry("genesis", NODE, 0)>>
  /\ result = Response("init", 0, "none", "")

Bounded(blocks, changes) == Len(chain') <= blocks + 1 /\ calls' <= changes

(***************************************************************************)
(* Spec: the node with the guard off, as the source ships it.              *)
(***************************************************************************)
Init == InitWith(FALSE)

Next ==
  \/ Tick(MaxTime)
  \/ \E rq \in TransactionInputs :
       CreateTransaction(rq[1], rq[2], rq[3], rq[4]) /\ Bounded(MaxBlocks, MaxCalls)
  \/ \E rq \in SubmitInputs(MinerInputs) :
       SubmitBlock(rq[1], rq[2], rq[3], rq[4], rq[5]) /\ Bounded(MaxBlocks, MaxCalls)
  \/ \E details_miner \in MinerInputs :
       BlockMining(details_miner) /\ Bounded(MaxBlocks, MaxCalls)

Spec == Init /\ [][Next]_vars

(***************************************************************************)
(* SpecLedger: the node mining its own blocks and serving transfers, with  *)
(* no miner submitting, followed for more calls and a longer time.         *)
(***************************************************************************)
NextLedger ==
  \/ Tick(LedgerTime)
  \/ \E rq \in TransactionInputs :
       CreateTransaction(rq[1], rq[2], rq[3], rq[4]) /\ Bounded(LedgerBlocks, LedgerCalls)
  \/ \E details_miner \in MinerInputs :
       BlockMining(details_miner) /\ Bounded(LedgerBlocks, LedgerCalls)

SpecLedger == Init /\ [][NextLedger]_vars

(***************************************************************************)
(* SpecGuard: the guard switched on (line 216 set to True), one external   *)
(* miner submitting and the node mining in between, no transfers.          *)
(***************************************************************************)
InitGuard == InitWith(TRUE)

NextGuard ==
  \/ \E rq \in SubmitInputs({addrA}) :
       SubmitBlock(rq[1], rq[2], rq[3], rq[4], rq[5]) /\ Bounded(GuardBlocks, GuardCalls)
  \/ BlockMining(NODE) /\ Bounded(GuardBlocks, GuardCalls)

SpecGuard == InitGuard /\ [][NextGuard]_vars

\* the same miner and the same calls with the guard off, as the source ships it
SpecGuardOff == Init /\ [][NextGuard]_vars

(***************************************************************************)
(* SpecScenario: miner A, mining through either path, and transfers of 10  *)
(* tokens between the two wallets.                                         *)
(***************************************************************************)
ScenarioTransactions ==
  {<<addrA, addrB, 10, seedA>>, <<addrB, addrA, 10, seedB>>}

NextScenario ==
  \/ Tick(ScenarioTime)
  \/ \E rq \in ScenarioTransactions :
       /\ CreateTransaction(rq[1], rq[2], rq[3], rq[4])
       /\ Bounded(ScenarioBlocks, ScenarioCalls)
  \/ \E rq \in SubmitInputs({addrA}) :
       /\ SubmitBlock(rq[1], rq[2], rq[3], rq[4], rq[5])
       /\ Bounded(ScenarioBlocks, ScenarioCalls)
  \/ BlockMining(addrA) /\ Bounded(ScenarioBlocks, ScenarioCalls)

SpecScenario == Init /\ [][NextScenario]_vars

(***************************************************************************)
(* SpecClock: time.time() is the wall clock of the host, which can be set  *)
(* back (an NTP step, an operator); the miner stamps its submissions with  *)
(* its own clock, which runs ahead of the chain.                           *)
(***************************************************************************)
ClockSetBack ==
  /\ now > 1
  /\ now' = now - 1
  /\ UNCHANGED <<chain, block_hash_map, mempool, balances, diff, miner_stats,
                 zedoguard, disk, calls, accept_log, result>>

\* <<index, proofN, prev_hash, miner_address, timestamp>>
ClockSubmitInputs ==
  {<<latest_block(chain).index + 1, proofN, calculate_hash(latest_block(chain)),
     addrA, latest_block(chain).timestamp + stamp>> :
       proofN \in ProofInputs, stamp \in {0, 1}}

NextClock ==
  \/ Tick(ClockTime)
  \/ ClockSetBack
  \/ \E rq \in ClockSubmitInputs :
       /\ SubmitBlock(rq[1], rq[2], rq[3], rq[4], rq[5])
       /\ Bounded(ClockBlocks, ClockCalls)
  \/ BlockMining(NODE) /\ Bounded(ClockBlocks, ClockCalls)

SpecClock == Init /\ [][NextClock]_vars

(***************************************************************************)
(* SpecMempool: a Mempool object driven through its own methods, with      *)
(* transactions of three fee levels and four txids.                        *)
(***************************************************************************)
MempoolTxids == 1..4
MempoolFees == {0, 10, 20}

MempoolTxs ==
  {[sender |-> addrA, recipient |-> addrB, quantity |-> 1, fee |-> fee,
    fee_percent |-> base_fee, txid |-> calculate_txid(id, 1), timestamp |-> id] :
      id \in MempoolTxids, fee \in MempoolFees}

MempoolOnly ==
  UNCHANGED <<chain, block_hash_map, balances, diff, miner_stats, zedoguard,
              disk, now, calls, accept_log>>

\* Mempool.add_transaction(tx)
MempoolAdd(tx) ==
  /\ \E added \in {add_transaction(mempool, tx)} :
       /\ mempool' = IF added = "ok" THEN Append(mempool, tx) ELSE mempool
       /\ result' = IF added = "ok"
                    THEN Response("add_transaction", 0, "none", "")
                    ELSE Response("add_transaction", 0, "exception", added)
  /\ MempoolOnly

\* Mempool.get_block_candidates()
MempoolCandidates ==
  /\ result' = [Response("get_block_candidates", 0, "list", "")
                  EXCEPT !.fee = Len(get_block_candidates(mempool))]
  /\ mempool' = mempool
  /\ MempoolOnly

\* Mempool.remove_confirmed(block_txs) as construct_block calls it
MempoolRemoveConfirmed ==
  /\ mempool' = remove_confirmed(mempool, get_block_candidates(mempool))
  /\ result' = Response("remove_confirmed", 0, "none", "")
  /\ MempoolOnly

NextMempool ==
  \/ \E tx \in MempoolTxs : MempoolAdd(tx)
  \/ MempoolCandidates
  \/ MempoolRemoveConfirmed

SpecMempool == Init /\ [][NextMempool]_vars

(***************************************************************************)
(* SpecRetarget: the node mines block after block, each some time after    *)
(* the one before.  The time between two blocks is half the target, the    *)
(* target, or one and a half times the target; it is chosen for the first  *)
(* block and again after block adjustment_interval, and kept in between.   *)
(***************************************************************************)
RetargetPaces ==
  {block_time_target \div 2, block_time_target, (3 * block_time_target) \div 2}

LastInterval ==
  chain[Len(chain)].timestamp - chain[Max(1, Len(chain) - 1)].timestamp

Pass(dt) ==
  /\ now = latest_block(chain).timestamp
  /\ Len(chain) <= RetargetBlocks
  /\ Len(chain) \in {1, adjustment_interval} \/ dt = LastInterval
  /\ now' = now + dt
  /\ UNCHANGED <<chain, block_hash_map, mempool, balances, diff, miner_stats,
                 zedoguard, disk, calls, accept_log, result>>

NextRetarget ==
  \/ \E dt \in RetargetPaces : Pass(dt)
  \/ /\ now > latest_block(chain).timestamp
     /\ BlockMining(NODE)
     /\ Bounded(RetargetBlocks, RetargetBlocks)

SpecRetarget == Init /\ [][NextRetarget]_vars

(***************************************************************************)
(* SpecDisk: miner A mines through the node, transfers of 10 tokens, and   *)
(* a chain file that may fail to be written.                               *)
(***************************************************************************)
NextDisk ==
  \/ Tick(DiskTime)
  \/ \E rq \in ScenarioTransactions :
       /\ CreateTransaction(rq[1], rq[2], rq[3], rq[4])
       /\ Bounded(DiskBlocks, DiskCalls)
  \/ BlockMining(addrA) /\ Bounded(DiskBlocks, DiskCalls)
  \/ BlockMiningSaveFails(addrA) /\ Bounded(DiskBlocks, DiskCalls)

SpecDisk == Init /\ [][NextDisk]_vars

(***************************************************************************)
(* SpecWallet: wallets are imported from a seed, their ownership is        *)
(* verified, and the node mines for the wallet just imported.              *)
(***************************************************************************)
\* the seeds a caller sends, and the values secrets.token_hex(16) may return
SeedInputs == {"", seedA, seedB, seedF}
token_hex == {seedA, seedB, seedF}

Wallet(op, seed_in, address, seed, ok) ==
  [op |-> op, seed_in |-> seed_in, address |-> address, seed |-> seed, ok |-> ok]

\* POST /wallet/import
ImportWallet(seed) ==
  /\ \E token \in token_hex :
       \E wallet \in {generate_or_token(seed, token)} :
         result' = Wallet("wallet_import", seed, wallet.address, wallet.seed, TRUE)
  /\ UNCHANGED <<chain, block_hash_map, mempool, balances, diff, miner_stats,
                 zedoguard, disk, now, calls, accept_log>>

\* AddressGen.verify_ownership on the wallet just imported and its seed
VerifyOwnership ==
  /\ result.op = "wallet_import"
  /\ \E token \in token_hex :
       result' = Wallet("verify_ownership", result.seed_in, result.address, result.seed,
                        generate_or_token(result.seed_in, token).address = result.address)
  /\ UNCHANGED <<chain, block_hash_map, mempool, balances, diff, miner_stats,
                 zedoguard, disk, now, calls, accept_log>>

NextWallet ==
  \/ \E seed \in SeedInputs : ImportWallet(seed)
  \/ VerifyOwnership
  \/ /\ result.op = "wallet_import"
     /\ BlockMining(result.address)
     /\ Bounded(WalletBlocks, WalletCalls)

SpecWallet == Init /\ [][NextWallet]_vars

(***************************************************************************)
(* SpecRead: the node mines for miner A and blocks are read by number.     *)
(* blocknum is taken as an integer, negative ones included.                *)
(***************************************************************************)
BlockReply(blocknum, http, body, error, block) ==
  [op |-> "get_block_by_num", blocknum |-> blocknum, http |-> http, body |-> body,
   error |-> error, block |-> block]

\* GET /network/block/<blocknum>; blockc[blocknum] raises IndexError outside
\* -len .. len - 1 and counts a negative number from the end
get_block_by_num(blockc, blocknum) ==
  IF Len(blockc) < blocknum
  THEN BlockReply(blocknum, 400, "record", "Block Doesnt Exist yet", <<>>)
  ELSE IF blocknum >= Len(blockc) \/ blocknum < 0 - Len(blockc)
  THEN BlockReply(blocknum, 500, "exception", "IndexError", <<>>)
  ELSE BlockReply(blocknum, 200, "block", "",
                  IF blocknum >= 0 THEN blockc[blocknum + 1]
                  ELSE blockc[Len(blockc) + blocknum + 1])

GetBlockByNum(blocknum) ==
  /\ result' = get_block_by_num(chain, blocknum)
  /\ UNCHANGED <<chain, block_hash_map, mempool, balances, diff, miner_stats,
                 zedoguard, disk, now, calls, accept_log>>

NextRead ==
  \/ Tick(ReadTime)
  \/ BlockMining(addrA) /\ Bounded(ReadBlocks, ReadBlocks)
  \/ \E blocknum \in -1..(Len(chain) + 1) : GetBlockByNum(blocknum)

SpecRead == Init /\ [][NextRead]_vars

(***************************************************************************)
(* SpecObserve: SpecGuard with a clock that moves, by single ticks and     *)
(* once by almost a whole window, and reads of a miner's difficulty.       *)
(***************************************************************************)
DifficultyReply(http, status, difficulty_multiplier, current_blocks_per_hour, effective_difficulty) ==
  [op |-> "check_address_difficulty", http |-> http, status |-> status,
   difficulty_multiplier |-> difficulty_multiplier,
   current_blocks_per_hour |-> current_blocks_per_hour,
   effective_difficulty |-> effective_difficulty]

\* GET /network/checkaddrdiff/<address>: the reply; multipliers in halves,
\* effective_difficulty 0 where the reply has no such field
check_address_difficulty(stats, address, t, d, guard) ==
  IF ~validate(address) THEN DifficultyReply(400, "error", 0, 0, 0)
  ELSE IF address \in DOMAIN stats /\ guard
  THEN DifficultyReply(200, IF stats[address].multiplier > 2 THEN "high" ELSE "normal",
                       stats[address].multiplier, Len(stats[address].blocks),
                       get_miner_difficulty(stats, address, t, d, guard))
  ELSE IF address \notin DOMAIN stats /\ guard
  THEN DifficultyReply(200, "normal", 2, 0, 0)
  ELSE IF address \in DOMAIN stats
  THEN DifficultyReply(200, "normal", 0, Len(stats[address].blocks),
                       get_miner_difficulty(stats, address, t, d, guard))
  ELSE DifficultyReply(200, "normal", 0, 0,
                       get_miner_difficulty(stats, address, t, d, guard))

\* the handler; get_miner_difficulty may reset the stored multiplier
CheckAddressDifficulty(address) ==
  /\ result' = check_address_difficulty(miner_stats, address, now, diff, zedoguard)
  /\ miner_stats' = IF validate(address) /\ (address \in DOMAIN miner_stats \/ ~zedoguard)
                    THEN get_miner_difficulty_stats(miner_stats, address, now)
                    ELSE miner_stats
  /\ UNCHANGED <<chain, block_hash_map, mempool, balances, diff, zedoguard, disk, now,
                 calls, accept_log>>

\* the clock moves on by one second less than the window
WindowPasses ==
  /\ now <= 1 + ObserveTicks
  /\ now' = now + zedoguard_window - 1
  /\ UNCHANGED <<chain, block_hash_map, mempool, balances, diff, miner_stats,
                 zedoguard, disk, calls, accept_log, result>>

\* submissions of miner A on the current head: every proof, a fresh timestamp
ObserveSubmitInputs ==
  {<<latest_block(chain).index + 1, proofN, calculate_hash(latest_block(chain)),
     addrA, now + 1>> : proofN \in ProofInputs}

NextObserve ==
  \/ \E rq \in ObserveSubmitInputs :
       SubmitBlock(rq[1], rq[2], rq[3], rq[4], rq[5]) /\ Bounded(GuardBlocks, GuardCalls)
  \/ BlockMining(NODE) /\ Bounded(GuardBlocks, GuardCalls)
  \/ Tick(1 + ObserveTicks)
  \/ WindowPasses
  \/ CheckAddressDifficulty(addrA)

SpecObserve == InitGuard /\ [][NextObserve]_vars

(***************************************************************************)
(* SpecRace: two miners submit blocks built on the head they last saw,     *)
(* the current one or the one before; the node mines as well.  A handler   *)
(* has no await between its first read and its last write, so the single   *)
(* event loop runs it as one step.                                         *)
(***************************************************************************)
\* <<index, proofN, prev_hash, miner_address, timestamp>>
RaceInputs ==
  {<<index, proofN, prev_hash, miner, now + 1>> :
      index \in {latest_block(chain).index, latest_block(chain).index + 1},
      proofN \in ProofInputs,
      prev_hash \in {calculate_hash(latest_block(chain)),
                     calculate_hash(chain[Max(1, Len(chain) - 1)])},
      miner \in {addrA, addrB}}

NextRace ==
  \/ \E rq \in RaceInputs :
       SubmitBlock(rq[1], rq[2], rq[3], rq[4], rq[5]) /\ Bounded(RaceBlocks, RaceCalls)
  \/ BlockMining(NODE) /\ Bounded(RaceBlocks, RaceCalls)

SpecRace == Init /\ [][NextRace]_vars

(***************************************************************************)
(* SpecRestart: miner A mines through the node, transfers of 10 tokens,    *)
(* and the node is stopped and started again on the files it left.         *)
(***************************************************************************)
Restart ==
  /\ Commit(LoadedNode(disk, now), Response("restart", 0, "none", ""))
  /\ UNCHANGED accept_log

NextRestart ==
  \/ Tick(RestartTime)
  \/ \E rq \in ScenarioTransactions :
       /\ CreateTransaction(rq[1], rq[2], rq[3], rq[4])
       /\ Bounded(RestartBlocks, RestartCalls)
  \/ BlockMining(addrA) /\ Bounded(RestartBlocks, RestartCalls)
  \/ Restart /\ Bounded(RestartBlocks, RestartCalls)

SpecRestart == Init /\ [][NextRestart]_vars

(***************************************************************************)
(* SpecRetargetRestart: SpecRetarget with restarts of the node.            *)
(***************************************************************************)
NextRetargetRestart ==
  \/ NextRetarget
  \/ Restart /\ Bounded(RetargetBlocks, RetargetRestartCalls)

SpecRetargetRestart == Init /\ [][NextRetargetRestart]_vars

(***************************************************************************)
(* SpecPending: miner A mines through the node and sends 30 tokens to B    *)
(* several times between two blocks.                                       *)
(***************************************************************************)
PendingTransactions == {<<addrA, addrB, 30, seedA>>}

NextPending ==
  \/ Tick(PendingTime)
  \/ \E rq \in PendingTransactions :
       /\ CreateTransaction(rq[1], rq[2], rq[3], rq[4])
       /\ Bounded(PendingBlocks, PendingCalls)
  \/ BlockMining(addrA) /\ Bounded(PendingBlocks, PendingCalls)

SpecPending == Init /\ [][NextPending]_vars

(***************************************************************************)
(* SpecStarve: miner A keeps mining through the node and keeps sending 10  *)
(* tokens to B.  The clock keeps running and blocks keep being mined: both *)
(* steps are taken whenever they stay possible.  Transfers are made before *)
(* the last clock reading, so that a later coinbase never meets a transfer *)
(* with its own txid.                                                      *)
(***************************************************************************)
StarveTransactions == {<<addrA, addrB, 10, seedA>>}

StarveTick == Tick(StarveTime)

StarveMine == BlockMining(addrA) /\ Len(chain') <= StarveBlocks + 1

NextStarve ==
  \/ StarveTick
  \/ \E rq \in StarveTransactions :
       /\ now < StarveTime
       /\ CreateTransaction(rq[1], rq[2], rq[3], rq[4])
       /\ Bounded(StarveBlocks, StarveCalls)
  \/ StarveMine

\* what StarveMine does to the chain: the steps of StarveMine are the steps
\* that change the chain, and they change it this way
StarveAppend ==
  /\ Len(chain) <= StarveBlocks
  /\ \E coinbase \in {new_data(Core, now, NODE, addrA, rewards)} :
       /\ coinbase.status # "DuplicateTxError"
       /\ \E p \in {PowCandidates(latest_block(chain).proofN, diff)} :
            /\ p # {}
            /\ \E b \in {construct_block(coinbase.state, now, Minimum(p),
                                          calculate_hash(latest_block(chain)), TRUE, TRUE)} :
                 chain' = b.chain

SpecStarve ==
  Init /\ [][NextStarve]_vars /\ WF_vars(StarveTick) /\ WF_chain(StarveAppend)

(***************************************************************************)
(* Properties                                                              *)
(***************************************************************************)
Rejected(res) == res.error # "" \/ res.body = "False"

UserTransactions(txs) == SelectSeq(txs, LAMBDA tx : tx.sender # NODE)

Coinbases(block) == SelectSeq(block.transactions, LAMBDA tx : tx.sender = NODE)

\* every transfer recorded so far, pending or confirmed, has a positive quantity
PositiveOnly ==
  /\ \A i \in 1..Len(mempool) : mempool[i].quantity > 0
  /\ \A i \in 1..Len(chain) :
       \A j \in 1..Len(chain[i].transactions) : chain[i].transactions[j].quantity > 0

\* C1: the block at position i of the chain has index i (genesis is 0) and,
\* for i > 0, its prev_hash is the hash of the block before it
C1_ChainLinked ==
  \A i \in 1..Len(chain) :
    /\ chain[i].index = i - 1
    /\ i > 1 => chain[i].prev_hash = calculate_hash(chain[i - 1])

\* a chain of three blocks, one accepted from a miner and one mined by the
\* node, on which a submission naming an older block as its parent was refused
C1_Witness ==
  /\ Len(chain) = 3
  /\ \E i \in 2..3 : accept_log[i].via = "submit_mined_block"
  /\ \E i \in 2..3 : accept_log[i].via = "block_mining"
  /\ result.op = "submit_block"
  /\ result.error = "Invalid previous hash"

\* C2: for every accepted block after genesis, the BLAKE2b digest of the
\* decimal previous proof followed by the decimal new proof starts with as
\* many zeros as the difficulty the block was accepted at, for blocks mined
\* by the node as for submitted ones
C2_ProofRule ==
  \A i \in 2..Len(chain) :
    LeadingZeros(ToString(chain[i - 1].proofN) \o ToString(chain[i].proofN))
      >= accept_log[i].difficulty

\* the chain read back from blockchain.json
LoadedChain == [i \in 1..Len(disk.blocks) |-> from_dict(disk.blocks[i])]

WalletAddresses == {addrA, addrB, transaction_fee_address}

\* C3: when blockchain.json holds the current chain and nothing is pending,
\* replaying it gives every wallet address the balance the running node holds
\* for it (stated for the states in which every recorded transfer has a
\* positive quantity)
C3_ReplayEqualsLive ==
  (/\ disk.exists
   /\ disk.blocks = DiskOf(chain).blocks
   /\ mempool = <<>>
   /\ PositiveOnly) =>
     \A a \in WalletAddresses :
        get_balance(replay_transactions(LoadedChain), a) = get_balance(balances, a)

\* C4: a create_transaction call that returns a rejection leaves the balances
\* and the mempool as they were, the "Mempool is full" rejection included
\* (stated for a positive amount sent after positive transfers only)
C4_RejectedAdmissionLeavesLedger ==
  [][\A rq \in TransactionInputs :
       (/\ rq[3] > 0
        /\ PositiveOnly
        /\ CreateTransaction(rq[1], rq[2], rq[3], rq[4])
        /\ Rejected(result')
        /\ result'.body # "exception")
       => UNCHANGED <<balances, mempool>>]_vars

\* C5: a block submission that is refused (wrong index, wrong previous hash,
\* wrong timestamp, invalid proof, low difficulty) leaves the chain, the
\* balances, the mempool, the difficulty and the miner windows as they were
C5_RejectedSubmissionLeavesState ==
  [][(result'.op = "submit_block" /\ Rejected(result'))
       => UNCHANGED <<chain, balances, mempool, diff, miner_stats>>]_vars

\* C6: a user with a balance of exactly 1 token and nothing pending, the
\* mempool empty, who sends 1 token is refused with "Insufficient funds"
\* (1.01 is needed: the quantity plus the fee)
C6_InsufficientFundsCountsFee ==
  [][\A rq \in TransactionInputs :
       (/\ rq[1] \in Users
        /\ rq[4] = SeedOf(rq[1])
        /\ rq[3] = 1
        /\ mempool = <<>>
        /\ get_balance(balances, rq[1]) = Tokens(1)
        /\ CreateTransaction(rq[1], rq[2], rq[3], rq[4]))
       => result'.error = "Insufficient funds"]_vars

\* C7: no transaction in the mempool or in a block has a negative quantity
C7_NoNegativeQuantity ==
  /\ \A i \in 1..Len(mempool) : mempool[i].quantity >= 0
  /\ \A i \in 1..Len(chain) :
       \A j \in 1..Len(chain[i].transactions) : chain[i].transactions[j].quantity >= 0

C9_OneCoinbasePerBlock ==
  PositiveOnly => \A i \in 2..Len(chain) :
    /\ Len(Coinbases(chain[i])) = 1
    /\ Coinbases(chain[i])[1].recipient = accept_log[i].miner
    /\ Coinbases(chain[i])[1].quantity = rewards
    /\ Coinbases(chain[i])[1].fee = 0

RECURSIVE SumOfBalances(_, _)
SumOfBalances(bal, keys) ==
  IF keys = {} THEN 0
  ELSE LET k == CHOOSE x \in keys : TRUE
       IN bal[k] + SumOfBalances(bal, keys \ {k})

BlocksWithCoinbase == {i \in 2..Len(chain) : Coinbases(chain[i]) # <<>>}

\* C10: the balances add up to the reward times the number of blocks that
\* carry a coinbase (stated for the states in which every recorded transfer
\* has a positive quantity)
C10_Conservation ==
  PositiveOnly
    => SumOfBalances(balances, DOMAIN balances)
         = Tokens(rewards) * Cardinality(BlocksWithCoinbase)

\* C11: a step that appends a block raises the balance of the fee recipient
\* by the sum of the fee fields of the block's transactions and the balance
\* of the block's miner by the reward
C11_FeesToRecipientRewardToMiner ==
  [][Len(chain') = Len(chain) + 1 =>
       /\ get_balance(balances', transaction_fee_address)
            - get_balance(balances, transaction_fee_address)
          = SumFees(latest_block(chain').transactions)
       /\ get_balance(balances', accept_log'[Len(chain')].miner)
            - get_balance(balances, accept_log'[Len(chain')].miner)
          = Tokens(rewards)]_vars

\* A mined block 1, then one transfer A -> B : 10 was admitted into an empty
\* mempool, then A mined block 2, which confirmed it; nothing else happened
C12_Witness ==
  /\ Len(chain) = 3
  /\ calls = 3
  /\ mempool = <<>>
  /\ accept_log[2].miner = addrA
  /\ accept_log[3].miner = addrA
  /\ UserTransactions(chain[2].transactions) = <<>>
  /\ Len(UserTransactions(chain[3].transactions)) = 1
  /\ UserTransactions(chain[3].transactions)[1].sender = addrA
  /\ UserTransactions(chain[3].transactions)[1].recipient = addrB
  /\ UserTransactions(chain[3].transactions)[1].quantity = 10

\* C12: after A mines a block, sends 10 to B from an empty mempool and mines
\* the next block, the transfer carried fee percent 0.01 and fee 0.10, and
\* the balances are A = 149.90, B = 10, fee recipient = 0.10
C12_Scenario ==
  C12_Witness =>
    /\ UserTransactions(chain[3].transactions)[1].fee_percent = 10
    /\ UserTransactions(chain[3].transactions)[1].fee = 100
    /\ get_balance(balances, addrA) = 149900
    /\ get_balance(balances, addrB) = 10000
    /\ get_balance(balances, transaction_fee_address) = 100

\* C13: the timestamps stored on the chain are strictly increasing; checked
\* here in a weaker form, which the claim implies: a block accepted from a
\* submission is never stamped earlier than the block before it
C13_TimestampsNeverDecrease ==
  \A i \in 2..Len(chain) :
    accept_log[i].via = "submit_mined_block"
      => chain[i].timestamp >= chain[i - 1].timestamp

Txids(txs) == {txs[i].txid : i \in 1..Len(txs)}

\* C14: the mempool never holds more than max_size transactions nor two with
\* one txid; add_transaction raises MempoolFullError at capacity, else
\* DuplicateTxError on a txid already present, leaving the pool as it was in
\* both cases, and appends otherwise
C14_MempoolBounded ==
  /\ [](/\ Len(mempool) <= max_size
        /\ Cardinality(Txids(mempool)) = Len(mempool))
  /\ [][\A tx \in MempoolTxs :
          MempoolAdd(tx) =>
            IF Len(mempool) >= max_size
            THEN result'.error = "MempoolFullError" /\ mempool' = mempool
            ELSE IF tx.txid \in Txids(mempool)
            THEN result'.error = "DuplicateTxError" /\ mempool' = mempool
            ELSE result'.error = "" /\ mempool' = Append(mempool, tx)]_vars

\* a full mempool on which add_transaction has just raised MempoolFullError
C14_Witness ==
  /\ Len(mempool) = max_size
  /\ result.op = "add_transaction"
  /\ result.error = "MempoolFullError"

\* transaction j comes before transaction i in the block order: a higher fee,
\* or the same fee and an earlier arrival
Before(txs, j, i) ==
  txs[j].fee > txs[i].fee \/ (txs[j].fee = txs[i].fee /\ j < i)

Rank(txs, i) == Cardinality({j \in 1..Len(txs) : Before(txs, j, i)}) + 1

\* C15: get_block_candidates returns the first min(|mempool|, block_tx_limit)
\* transactions of the mempool sorted by descending fee, equal fees in
\* arrival order, and leaves the mempool as it was
C15_StablePrefix ==
  /\ [](/\ Len(get_block_candidates(mempool))
             = IF Len(mempool) < block_tx_limit THEN Len(mempool) ELSE block_tx_limit
        /\ \A i \in 1..Len(mempool) :
             Rank(mempool, i) <= Len(get_block_candidates(mempool))
               => get_block_candidates(mempool)[Rank(mempool, i)] = mempool[i])
  /\ [][MempoolCandidates => mempool' = mempool]_vars

\* candidates were taken from a mempool of more than block_tx_limit
\* transactions whose first fee is lower than the next two, which are equal
C15_Witness ==
  /\ result.op = "get_block_candidates"
  /\ Len(mempool) > block_tx_limit
  /\ Len(mempool) >= 3
  /\ mempool[1].fee < mempool[2].fee
  /\ mempool[2].fee = mempool[3].fee

\* the retarget rule: one up when the span is shorter than expected, one down
\* (not below 1) when it is longer, the same when it is equal
Retargeted(d, actual) ==
  IF actual < block_time_target * adjustment_interval THEN d + 1
  ELSE IF actual > block_time_target * adjustment_interval THEN Max(1, d - 1)
  ELSE d

\* C16: an append that makes the chain length a positive multiple of
\* adjustment_interval retargets diff on the time between the last block and
\* the block adjustment_interval before it (stated for the lengths at which
\* that block exists)
C16_RetargetRule ==
  [][(/\ Len(chain') = Len(chain) + 1
      /\ Len(chain') % adjustment_interval = 0
      /\ Len(chain') > adjustment_interval)
       => diff' = Retargeted(diff, chain'[Len(chain')].timestamp
                                   - chain'[Len(chain') - adjustment_interval].timestamp)]_vars

\* C17: diff is at least 1, and a step that changes diff appends a block
\* whose index is a positive multiple of adjustment_interval
C17_RetargetAtIndexMultiples ==
  /\ [](diff >= 1)
  /\ [][diff' # diff =>
          /\ Len(chain') = Len(chain) + 1
          /\ latest_block(chain').index > 0
          /\ latest_block(chain').index % adjustment_interval = 0]_vars

\* C17, amended: diff is at least 1, and a step that changes diff appends a
\* block that makes the chain length a positive multiple of
\* adjustment_interval (the block's index is one less than a multiple)
C17_RetargetAtLengthMultiples ==
  /\ [](diff >= 1)
  /\ [][diff' # diff =>
          /\ Len(chain') = Len(chain) + 1
          /\ Len(chain') % adjustment_interval = 0]_vars

\* the twelfth block of the chain, index 11, has raised diff
C17_Witness ==
  /\ Len(chain) = adjustment_interval
  /\ latest_block(chain).index = adjustment_interval - 1
  /\ diff = 2

\* every block so far came half the target time after the block before it
HalfTime ==
  \A i \in 2..Len(chain) :
    2 * (chain[i].timestamp - chain[i - 1].timestamp) = block_time_target

AcceptedBy(miner) ==
  Cardinality({i \in 1..Len(accept_log) :
                 /\ accept_log[i].miner = miner
                 /\ accept_log[i].via = "submit_mined_block"})

C20_GuardOffUsesGlobalDiff ==
  [][(~zedoguard /\ result'.op = "submit_block")
       => /\ result'.error # "low difficulty"
          /\ result'.body = "block"
               => accept_log'[Len(accept_log')].difficulty = diff]_vars

\* the guard is off, the miner's stored multiplier is above 1.0 and the
\* miner's latest submission was accepted under a difficulty of 1
C20_Witness ==
  /\ ~zedoguard
  /\ addrA \in DOMAIN miner_stats
  /\ miner_stats[addrA].multiplier > 2
  /\ Len(miner_stats[addrA].blocks) > zedoguard_threshold
  /\ result.op = "submit_block"
  /\ result.body = "block"
  /\ accept_log[Len(accept_log)].miner = addrA
  /\ accept_log[Len(accept_log)].difficulty = 1

\* C21: while all of a miner's timestamps lie inside the window, the window
\* holds one timestamp for each of the miner's accepted blocks
C21_WindowCountsAcceptances ==
  \A m \in DOMAIN miner_stats \ {NODE} :
    (\A i \in 1..Len(miner_stats[m].blocks) :
        now - miner_stats[m].blocks[i] < zedoguard_window)
      => Len(miner_stats[m].blocks) = AcceptedBy(m)

\* C22: a commit that fails to persist the chain leaves the in-memory chain
\* and the fee recipient's balance as they were
C22_FailedSaveLeavesChain ==
  [][(result'.op = "block_mining" /\ result'.error = "OSError")
       => /\ chain' = chain
          /\ get_balance(balances', transaction_fee_address)
               = get_balance(balances, transaction_fee_address)]_vars

\* C23: the canonical file exists and holds exactly the in-memory chain
C23_FileHoldsChain ==
  /\ disk.exists
  /\ disk.blocks = DiskOf(chain).blocks

\* C24: every operation leaves the chain it found as a prefix of the chain
\* it leaves, so a block on the chain keeps its fields and its transactions
C24_AppendOnly ==
  [][/\ Len(chain') >= Len(chain)
     /\ \A i \in 1..Len(chain) : chain'[i] = chain[i]]_vars

\* a chain of three blocks whose later blocks carry transactions, reached
\* through a node-mined and a submitted block
C24_Witness ==
  /\ Len(chain) = 3
  /\ chain[2].transactions # <<>>
  /\ chain[3].transactions # <<>>
  /\ \E i \in 2..3 : accept_log[i].via = "submit_mined_block"
  /\ \E i \in 2..3 : accept_log[i].via = "block_mining"

\* C25: for every seed, the empty string included, two calls of generate
\* give the same address, the address is valid, and verify_ownership of
\* the address with that seed is true
C25_AddressLaws ==
  /\ [](result.op = "wallet_import" => validate(result.address))
  /\ [](result.op = "verify_ownership" => result.ok)
  /\ [][(/\ result.op = "wallet_import"
         /\ result'.op = "wallet_import"
         /\ result'.seed_in = result.seed_in)
          => result'.address = result.address]_vars

\* the fee percent of a mempool of the given size, in fee steps
FeeAtSize(n) == get_current_fee_percent(SubSeq(mempool, 1, n))

\* C26: the fee percent depends on the size of the mempool only and is
\* round((base_fee + fullness * (max_fee - base_fee)) / fee_step) fee steps;
\* it lies between base_fee and max_fee, does not decrease with the size,
\* and is 0.01 (10 steps) for an empty mempool
C26_FeePercent ==
  /\ get_current_fee_percent(mempool)
       = Round(base_fee * max_size + Len(mempool) * (max_fee - base_fee), max_size)
  /\ get_current_fee_percent(mempool) \in base_fee..max_fee
  /\ \A n \in 0..Len(mempool) :
       /\ FeeAtSize(n) <= get_current_fee_percent(mempool)
       /\ FeeAtSize(n) = get_current_fee_percent([i \in 1..n |-> mempool[1]])
  /\ FeeAtSize(0) = 10

\* a full mempool of transactions with different fees
C26_Witness ==
  /\ Len(mempool) = max_size
  /\ \E i, j \in 1..Len(mempool) : mempool[i].fee # mempool[j].fee

\* C27: every call of the create pipeline answers with a record, which
\* carries a txid when the transfer was admitted and a reason when not
C27_CreateReturnsRecord ==
  [][result'.op = "create_transaction"
       => /\ result'.body = "record"
          /\ result'.error = "" <=> result'.txid # <<>>]_vars

\* C28: a read of block n, n not negative, answers with the block of
\* index n when n < chain length and with a 400 error for every other n,
\* n equal to the chain length included
C28_BlockByNumber ==
  [][(result'.op = "get_block_by_num" /\ result'.blocknum >= 0)
       => IF result'.blocknum < Len(chain)
          THEN /\ result'.http = 200
               /\ result'.block = chain[result'.blocknum + 1]
               /\ result'.block.index = result'.blocknum
          ELSE result'.http = 400]_vars

\* the multiplier, in halves, that belongs to n timestamps inside the window
MultiplierOf(n) ==
  IF n <= zedoguard_threshold THEN 2 ELSE 2 + (n - zedoguard_threshold)

\* C29: with the guard on, the effective difficulty reported for a miner is
\* diff times the multiplier that belongs to the number of the miner's
\* timestamps lying inside the window at the instant of the read
C29_MultiplierFromWindowNow ==
  [][(/\ result'.op = "check_address_difficulty"
      /\ result'.http = 200
      /\ result'.current_blocks_per_hour > 0)
       => result'.effective_difficulty
            = (diff * MultiplierOf(Len(InWindow(miner_stats[addrA].blocks, now)))) \div 2]_vars

BlockTxids(i) == Txids(chain[i].transactions)

\* C31: a block's transactions are gone from the mempool once the block is
\* appended, and no txid stands in two blocks, twice in one block, or in a
\* block and in the mempool at once
C31_ConfirmedLeaveMempool ==
  /\ \A i \in 1..Len(chain) :
       /\ BlockTxids(i) \cap Txids(mempool) = {}
       /\ Cardinality(BlockTxids(i)) = Len(chain[i].transactions)
       /\ \A j \in 1..Len(chain) : i # j => BlockTxids(i) \cap BlockTxids(j) = {}

\* C32: the hash index holds an entry hash(b) -> b for every block b of the
\* chain, the genesis block and the blocks loaded at a start included
C32_HashIndexComplete ==
  \A i \in 1..Len(chain) :
    /\ calculate_hash(chain[i]) \in DOMAIN block_hash_map
    /\ block_hash_map[calculate_hash(chain[i])] = chain[i]

\* the node was started on a saved chain of three blocks
C32_Witness ==
  /\ result.op = "restart"
  /\ disk.exists
  /\ Len(chain) = 3
  /\ chain[3].transactions # <<>>

\* C33: no address has a negative balance in the live ledger (stated for
\* the states in which every recorded transfer has a positive quantity)
C33_NoNegativeBalance ==
  PositiveOnly =>
    \A a \in DOMAIN balances : balances[a] >= 0

\* C34: the balance of a wallet goes down only in a create_transaction call
\* that names the wallet as sender and carries the wallet's seed
C34_OnlyOwnerSpends ==
  [][\A X \in Users :
       get_balance(balances', X) < get_balance(balances, X)
         => /\ result'.op = "create_transaction"
            /\ \E rq \in TransactionInputs :
                 /\ rq[1] = X
                 /\ verify_ownership(X, rq[4])
                 /\ CreateTransaction(rq[1], rq[2], rq[3], rq[4])]_vars

\* the transactions of the reserved sender in a sequence of transactions
NodeSent(txs) == {txs[i] : i \in {j \in 1..Len(txs) : txs[j].sender = NODE}}

\* C35: a create_transaction call that names "node" as sender is refused as
\* an invalid address and changes nothing; a transaction sent by "node"
\* comes into the mempool or a block only in a step of block_mining or of
\* a block submission
C35_NodeSenderOnlyFromMining ==
  [][/\ result'.op = "create_transaction"
          => /\ chain' = chain
             /\ NodeSent(mempool') \subseteq NodeSent(mempool)
             /\ \A rq \in TransactionInputs :
                  (rq[1] = NODE /\ CreateTransaction(rq[1], rq[2], rq[3], rq[4]))
                    => /\ result'.error = "Invalid address(es)"
                       /\ UNCHANGED <<mempool, balances>>
     /\ (\/ NodeSent(mempool') \ NodeSent(mempool) # {}
         \/ NodeSent(AllTransactions(chain')) \ NodeSent(AllTransactions(chain)) # {})
          => result'.op \in {"block_mining", "submit_block"}]_vars

\* coinbase transactions are on the chain, from the node's mining and from a
\* submission, and a create_transaction call has just been refused for its
\* addresses
C35_Witness ==
  /\ Len(chain) = 3
  /\ \A i \in 2..3 : NodeSent(chain[i].transactions) # {}
  /\ \E i \in 2..3 : accept_log[i].via = "submit_mined_block"
  /\ result.op = "create_transaction"
  /\ result.error = "Invalid address(es)"

\* C36: the balance of the reserved address "node" is zero or absent
C36_NodeBalanceZero ==
  get_balance(balances, NODE) = 0

\* C37: a restart on the saved chain leaves the global difficulty at the
\* value it had before the node was stopped
C37_RestartKeepsDifficulty ==
  [][(/\ result'.op = "restart"
      /\ disk.exists
      /\ disk.blocks = DiskOf(chain).blocks)
       => diff' = diff]_vars

\* C40: the read of a miner's difficulty (GET /network/checkaddrdiff) leaves
\* the chain, the balances, the mempool, the global difficulty and every
\* miner's window and multiplier as they were
C40_ReadsLeaveCoreUnchanged ==
  [][result'.op = "check_address_difficulty"
       => UNCHANGED <<chain, balances, mempool, diff, miner_stats>>]_vars

\* C39: a transfer is not answered "Insufficient funds" when the sender's
\* live balance covers the quantity and the fee
C39_PendingCountedOnce ==
  [][\A rq \in PendingTransactions :
       (/\ result'.op = "create_transaction"
        /\ result'.error = "Insufficient funds"
        /\ now' = now)
         => get_balance(balances, rq[1])
              < Tokens(rq[3]) + rq[3] * get_current_fee_percent(mempool)]_vars

\* the pending transactions admitted while the chain held at most n blocks
\* (a txid is the pair of the clock reading and the chain length at admission)
PendingSince(n) == {i \in 1..Len(mempool) : mempool[i].txid[2] <= n}

====
